---- MODULE Spec2Model ----
(***************************************************************************)
(* QuickScan: the detection run of DetectionPage (a React function         *)
(* component), the App shell that mounts it, and the issue list the        *)
(* ReportPage derives from the report; and, each on its own, the          *)
(* CameraTest and TrackpadTest components the DetectionPage shows.         *)
(*                                                                         *)
(* React semantics carried by the model:                                   *)
(*  - every handler of the component is a closure of ONE render: the names *)
(*    steps, interactiveResults, hardwareData, ... it reads are the values *)
(*    of that render.  A closure is modelled by the component state record *)
(*    it was created from.                                                 *)
(*  - state setters act on the live component; on an unmounted component   *)
(*    they do nothing.                                                     *)
(*  - an async function keeps running after its component is unmounted.    *)
(***************************************************************************)
EXTENDS Integers, Sequences, FiniteSets, Bags, TLC

\* ---------------------------------------------------------------- bounds
\* DetectionPage instances the App may mount in one behaviour.
MaxRuns == 2
\* Probe outcomes / user answers of one behaviour that are not the healthy one.
MaxFaults == 2
\* Clicks on the result buttons of the microphone test in one behaviour.
MaxMicClicks == 2
\* getUserMedia calls one CameraTest may make (the first and its retries).
MaxCameraRequests == 4
\* Click events and drag path points one TrackpadTest counts up to.
MaxClicks == 4
MaxDragPath == 22

\* ------------------------------------------------------- program constants
\* KeyboardTest: TOTAL_KEYS = ALL_KEYS.length, the keys of MAC_KEYBOARD_LAYOUT.
TOTAL_KEYS == 76
\* useState initial value of interactiveResults.keyboard.totalKeys.
InitialTotalKeys == 78
\* setTimeout delays: the deferred MicrophoneTest callbacks, the pause after
\* every automatic step, and the wait that stands for the sensors probe.
MicCallbackMs == 50
StepPauseMs == 300
SensorsWaitMs == 500
\* TrackpadTest: clickPassed = clickCount >= 3, dragPassed = dragPath.length > 20.
ClickThreshold == 3
DragThreshold == 20

\* An absent value (null / undefined) is the empty tuple, a present one <<v>>.
Null == <<>>
Some(v) == <<v>>
IsNull(x) == Len(x) = 0
Val(x) == x[1]

\* activeTest = null, and a step value that was not given.
NoTest == "null"
Undefined == "undefined"

\* ---------------------------------------------------------- step catalog
StepIds == <<"hardware", "battery", "storage", "refurbishment", "network",
             "screen", "keyboard", "trackpad", "camera", "microphone",
             "speaker", "sensors">>

InteractiveIds == {"screen", "keyboard", "trackpad", "camera", "microphone", "speaker"}

\* steps.length
NumSteps == Len(StepIds)

\* Array indices are the code's: 0 .. steps.length - 1.
StepIndices == 0 .. (NumSteps - 1)

\* The useState initial value of steps.
InitialSteps ==
  [i \in StepIndices |->
     [id |-> StepIds[i + 1], status |-> "pending", value |-> Undefined,
      isInteractive |-> StepIds[i + 1] \in InteractiveIds]]

\* The useState initial value of interactiveResults.
InitialInteractiveResults ==
  [screen     |-> [tested |-> FALSE, skipped |-> FALSE, hasDeadPixel |-> FALSE],
   keyboard   |-> [tested |-> FALSE, skipped |-> FALSE, testedCount |-> 0,
                   totalKeys |-> InitialTotalKeys],
   trackpad   |-> [tested |-> FALSE, skipped |-> FALSE, click |-> TRUE,
                   drag |-> TRUE, gesture |-> TRUE],
   camera     |-> [tested |-> FALSE, skipped |-> FALSE, working |-> TRUE],
   microphone |-> [tested |-> FALSE, skipped |-> FALSE, working |-> TRUE],
   speaker    |-> [tested |-> FALSE, skipped |-> FALSE, left |-> TRUE, right |-> TRUE]]

\* The state of a freshly mounted DetectionPage.
InitialDetectionPage ==
  [currentStep        |-> 0,
   isRunning          |-> FALSE,
   activeTest         |-> NoTest,
   hardwareData       |-> Null,
   batteryData        |-> Null,
   storageData        |-> Null,
   refurbishmentData  |-> Null,
   interactiveResults |-> InitialInteractiveResults,
   steps              |-> InitialSteps]

\* steps.findIndex(s => s.id === id); -1 when there is none.
findIndex(stepList, id) ==
  IF \E i \in DOMAIN stepList : stepList[i].id = id
    THEN CHOOSE i \in DOMAIN stepList : stepList[i].id = id
    ELSE -1

\* ------------------------------------------------------- probe outcomes
\* A probe call settles as rejected, as null, or with data.
Rejected == [kind |-> "rejected"]
NullResult == [kind |-> "null"]
Data(d) == [kind |-> "data", data |-> d]

HardwareInfo == [cpu |-> "M1", memoryGB |-> "16"]

\* health is carried in tenths of a percent (796 is 79.6 %), so that
\* Math.round is not the identity.
HealthyBattery == [health |-> 850, cycle_count |-> 400]
BatteryReadings ==
  {HealthyBattery,
   [health |-> 796, cycle_count |-> 600],
   [health |-> 750, cycle_count |-> 800],
   [health |-> 550, cycle_count |-> 850],
   [health |-> 0, cycle_count |-> 500]}

SmartStatuses == {"Verified", "Healthy", "Failing"}

NoRefurbishment ==
  [is_refurbished |-> FALSE, indicators |-> <<>>, replaced_parts |-> <<>>,
   refurb_program |-> Null]
RefurbishmentReadings ==
  {NoRefurbishment,
   [is_refurbished |-> TRUE,
    indicators |-> << [name |-> "os_reinstall", severity |-> "info"] >>,
    replaced_parts |-> <<>>, refurb_program |-> Null],
   [is_refurbished |-> TRUE,
    indicators |-> << [name |-> "os_reinstall", severity |-> "info"],
                      [name |-> "third_party_storage", severity |-> "warning"],
                      [name |-> "mdm_enrolled", severity |-> "critical"] >>,
    replaced_parts |-> << "battery", "display" >>,
    refurb_program |-> Some("Apple Certified Refurbished")],
   [is_refurbished |-> FALSE,
    indicators |-> << [name |-> "date_mismatch", severity |-> "warning"] >>,
    replaced_parts |-> << "display" >>, refurb_program |-> Null]}

\* What the probe of an automatic step can settle with.
ProbeOutcomes(id) ==
  CASE id = "hardware"      -> {Data(HardwareInfo), Rejected}
    [] id = "battery"       -> {Data(b) : b \in BatteryReadings} \cup {NullResult, Rejected}
    [] id = "storage"       -> {Data([smart_status |-> s]) : s \in SmartStatuses}
                                 \cup {NullResult, Rejected}
    [] id = "refurbishment" -> {Data(r) : r \in RefurbishmentReadings} \cup {Rejected}
    [] id = "network"       -> {Data("network"), Rejected}
    [] OTHER                -> {Data("timer")}

\* The healthy outcome of each probe.
HealthyOutcome(id) ==
  CASE id = "hardware"      -> Data(HardwareInfo)
    [] id = "battery"       -> Data(HealthyBattery)
    [] id = "storage"       -> Data([smart_status |-> "Verified"])
    [] id = "refurbishment" -> Data(NoRefurbishment)
    [] id = "network"       -> Data("network")
    [] OTHER                -> Data("timer")

\* ---------------------------------------------------------- pure helpers
\* Math.round of a non-negative number given in tenths.
MathRoundTenths(t) == (t + 5) \div 10

\* String.prototype.toLowerCase on the SMART status strings.
toLowerCase(s) ==
  CASE s = "Verified" -> "verified"
    [] s = "Healthy"  -> "healthy"
    [] s = "Failing"  -> "failing"
    [] OTHER          -> s

\* s.includes(sub), on the lower-cased SMART status strings.
includes(s, sub) ==
  \/ s = sub
  \/ s = "not verified" /\ sub = "verified"

\* An update that writes the status and value into every entry.
updateStepStatusEveryEntry(prev, id, status, value) ==
  [i \in DOMAIN prev |-> [prev[i] EXCEPT !.status = status, !.value = value]]

\* updateStepStatus: setSteps(prev => prev.map(...)) applied to prev.
updateStepStatus(prev, id, status, value) ==
  [i \in DOMAIN prev |->
     IF prev[i].id = id
       THEN [prev[i] EXCEPT !.status = status, !.value = value]
       ELSE prev[i]]

\* Number of steps of a ledger with the given status.
CountStatus(stepList, status) ==
  Cardinality({i \in DOMAIN stepList : stepList[i].status = status})

\* The score taken over the automatic half of the catalog only.
ScoreOverAutomatic(passedCount, warningCount, length) ==
  ((2 * passedCount + warningCount) * 100 + (length \div 2)) \div (2 * (length \div 2))

\* Math.round(((passed + warning * 0.5) / length) * 100); with 12 steps the
\* quotient is exact in binary floating point whenever it ends in .5.
Score(passedCount, warningCount, length) ==
  ((2 * passedCount + warningCount) * 100 + length) \div (2 * length)

\* ------------------------------------------------- runAutomaticDetection
\* The status rule of the battery step.
BatteryStatus(healthPercent) ==
  IF healthPercent >= 80 THEN "passed"
  ELSE IF healthPercent >= 60 THEN "warning" ELSE "failed"

\* The storage rule comparing the status as returned, without toLowerCase.
StorageStatusNoLowerCase(smart_status) ==
  IF smart_status = "verified" \/ smart_status = "healthy" THEN "passed" ELSE "warning"

\* The status rule of the storage step.
StorageStatus(smart_status) ==
  IF \/ includes(toLowerCase(smart_status), "verified")
     \/ includes(toLowerCase(smart_status), "healthy")
    THEN "passed" ELSE "warning"

\* The indicators taken as they come, without the severity filter.
WarningIndicatorsUnfiltered(indicators) == indicators

\* refurb.indicators.filter(i => i.severity === 'warning' || 'critical')
WarningIndicators(indicators) ==
  SelectSeq(indicators, LAMBDA i : i.severity \in {"warning", "critical"})

\* The refurbishment rule counting every indicator, whatever its severity.
RefurbishmentStatusAnyIndicator(refurb) ==
  IF refurb.is_refurbished /\ Len(refurb.indicators) > 0 THEN "warning" ELSE "passed"

\* The status rule of the refurbishment step.
RefurbishmentStatus(refurb) ==
  IF refurb.is_refurbished
    THEN IF Len(WarningIndicators(refurb.indicators)) > 0 THEN "warning" ELSE "passed"
    ELSE "passed"

\* The label shown for a detected refurbishment.
RefurbishmentLabel(refurb) ==
  IF ~IsNull(refurb.refurb_program) THEN Val(refurb.refurb_program)
  ELSE IF Len(refurb.replaced_parts) > 0 THEN "refurbishment.partsReplaced"
  ELSE "refurbishment.detected"

\* runAutomaticDetection up to its await: the step is marked testing and the
\* probe is invoked.
runAutomaticDetectionBegin(d, stepId) ==
  [d EXCEPT !.steps = updateStepStatus(@, stepId, "testing", Undefined)]

\* runAutomaticDetection without its catch blocks: a probe that does not
\* resolve with data leaves the step as it was, in 'testing'.
runAutomaticDetectionNoCatch(d, stepId, o) ==
  IF o.kind = "data"
    THEN [d EXCEPT !.steps = updateStepStatus(@, stepId, "passed", Undefined)]
    ELSE d

\* runAutomaticDetection after its await: what the setters do to the component
\* state d when the probe of stepId settled with outcome o.
runAutomaticDetectionSettle(d, stepId, o) ==
  CASE stepId = "hardware" ->
         IF o.kind = "data"
           THEN [d EXCEPT !.hardwareData = Some(o.data),
                          !.steps = updateStepStatus(@, stepId, "passed",
                                      o.data.cpu \o " | " \o o.data.memoryGB \o "GB")]
           ELSE [d EXCEPT !.steps = updateStepStatus(@, stepId, "failed", "Error")]
    [] stepId = "battery" ->
         IF o.kind = "data"
           THEN [d EXCEPT !.batteryData = Some(o.data),
                          !.steps = updateStepStatus(@, stepId,
                                      BatteryStatus(MathRoundTenths(o.data.health)),
                                      ToString(MathRoundTenths(o.data.health)) \o "% | "
                                        \o ToString(o.data.cycle_count) \o " cycles")]
           ELSE [d EXCEPT !.steps = updateStepStatus(@, stepId, "warning", "unreadable")]
    [] stepId = "storage" ->
         IF o.kind = "data"
           THEN [d EXCEPT !.storageData = Some(o.data),
                          !.steps = updateStepStatus(@, stepId,
                                      StorageStatus(o.data.smart_status),
                                      "SMART: " \o o.data.smart_status)]
           ELSE [d EXCEPT !.steps = updateStepStatus(@, stepId, "passed", "SMART: OK")]
    [] stepId = "refurbishment" ->
         IF o.kind = "data"
           THEN [d EXCEPT !.refurbishmentData = Some(o.data),
                          !.steps = updateStepStatus(@, stepId,
                                      RefurbishmentStatus(o.data),
                                      IF o.data.is_refurbished
                                        THEN RefurbishmentLabel(o.data)
                                        ELSE "refurbishment.notDetected")]
           ELSE [d EXCEPT !.steps = updateStepStatus(@, stepId, "passed",
                                      "refurbishment.notDetected")]
    [] stepId = "network" ->
         IF o.kind = "data"
           THEN [d EXCEPT !.steps = updateStepStatus(@, stepId, "passed",
                                      "WiFi ok | Bluetooth ok")]
           ELSE [d EXCEPT !.steps = updateStepStatus(@, stepId, "passed",
                                      "WiFi ok | Bluetooth ok")]
    [] stepId = "sensors" ->
         [d EXCEPT !.steps = updateStepStatus(@, stepId, "passed", "detection.status.passed")]
    [] OTHER ->
         [d EXCEPT !.steps = updateStepStatus(@, stepId, "passed", Undefined)]

\* ------------------------------------------------------- finishDetection
\* The report finishDetection builds.  c is the closure finishDetection runs
\* in: the component state of the render that created the handler.  Numbers
\* about battery health stay in tenths of a percent.
BuildReport(c) ==
  LET passedCount  == CountStatus(c.steps, "passed")
      warningCount == CountStatus(c.steps, "warning")
      failedCount  == CountStatus(c.steps, "failed")
      \* batteryData?.health || 100
      health == IF IsNull(c.batteryData) \/ Val(c.batteryData).health = 0
                  THEN 1000 ELSE Val(c.batteryData).health
      ir == c.interactiveResults
  IN [overallScore |-> Score(passedCount, warningCount, Cardinality(DOMAIN c.steps)),
      summary |-> [passed |-> passedCount, warning |-> warningCount,
                   failed |-> failedCount],
      battery |-> [health |-> health,
                   cycleCount |-> IF IsNull(c.batteryData) THEN 0
                                  ELSE Val(c.batteryData).cycle_count,
                   rating |-> IF health >= 800 THEN "excellent"
                              ELSE IF health >= 600 THEN "good" ELSE "fair"],
      storage |-> [smartStatus |->
                     IF ~IsNull(c.storageData)
                        /\ Val(c.storageData).smart_status = "Verified"
                       THEN "healthy" ELSE "warning"],
      interactive |->
        [screen     |-> [tested |-> ir.screen.tested, skipped |-> ir.screen.skipped,
                         hasDeadPixel |-> ir.screen.hasDeadPixel],
         keyboard   |-> [tested |-> ir.keyboard.tested, skipped |-> ir.keyboard.skipped,
                         testedKeys |-> <<>>, totalKeys |-> ir.keyboard.totalKeys,
                         failedKeys |-> <<>>],
         trackpad   |-> [tested |-> ir.trackpad.tested, skipped |-> ir.trackpad.skipped,
                         clickWorking |-> ir.trackpad.click,
                         dragWorking |-> ir.trackpad.drag,
                         gestureWorking |-> ir.trackpad.gesture],
         camera     |-> [tested |-> ir.camera.tested, skipped |-> ir.camera.skipped,
                         working |-> ir.camera.working],
         microphone |-> [tested |-> ir.microphone.tested,
                         skipped |-> ir.microphone.skipped,
                         working |-> ir.microphone.working],
         speaker    |-> [tested |-> ir.speaker.tested, skipped |-> ir.speaker.skipped,
                         leftChannel |-> ir.speaker.left,
                         rightChannel |-> ir.speaker.right]],
      refurbishment |->
        IF IsNull(c.refurbishmentData) THEN Null
        ELSE Some([isRefurbished |-> Val(c.refurbishmentData).is_refurbished,
                   indicators    |-> Val(c.refurbishmentData).indicators,
                   replacedParts |-> Val(c.refurbishmentData).replaced_parts,
                   refurbProgram |-> Val(c.refurbishmentData).refurb_program]),
      rawData |-> [hardware |-> c.hardwareData, battery |-> c.batteryData,
                   storage |-> c.storageData, refurbishment |-> c.refurbishmentData]]

\* ---------------------------------------------------------- collectIssues
Issue(category, level, rule, data) ==
  [category |-> category, level |-> level, rule |-> rule, data |-> data]

\* One optional issue as a sequence of length 0 or 1.
IssueIf(cond, issue) == IF cond THEN << issue >> ELSE <<>>

\* Names pushed for the flags that are false, in the order of the code.
FailingNames(flags, names) ==
  LET keep[i \in 0 .. Len(flags)] ==
        IF i = 0 THEN <<>>
        ELSE IF flags[i] THEN keep[i - 1] ELSE Append(keep[i - 1], names[i])
  IN keep[Len(flags)]

\* The battery rules with the cycle threshold taken inclusively (>= 500).
BatteryIssuesCyclesFrom500(r) ==
  IssueIf(r.battery.health < 800,
          Issue("battery", IF r.battery.health < 600 THEN "failed" ELSE "warning",
                "batteryHealth", << ToString(MathRoundTenths(r.battery.health)) >>))
  \o IssueIf(r.battery.cycleCount >= 500,
          Issue("battery", IF r.battery.cycleCount > 800 THEN "failed" ELSE "warning",
                "batteryCycles", << ToString(r.battery.cycleCount) >>))

\* collectIssues: the battery health and the cycle count rule.
BatteryIssues(r) ==
  IssueIf(r.battery.health < 800,
          Issue("battery", IF r.battery.health < 600 THEN "failed" ELSE "warning",
                "batteryHealth", << ToString(MathRoundTenths(r.battery.health)) >>))
  \o IssueIf(r.battery.cycleCount > 500,
          Issue("battery", IF r.battery.cycleCount > 800 THEN "failed" ELSE "warning",
                "batteryCycles", << ToString(r.battery.cycleCount) >>))

\* collectIssues: the storage rule.
StorageIssues(r) ==
  IssueIf(r.storage.smartStatus # "healthy",
          Issue("storage", "failed", "storageHealth", << r.storage.smartStatus >>))

\* collectIssues: the rules of the six interactive categories.
InteractiveIssues(r) ==
  LET kb == r.interactive.keyboard
      \* (testedKeys?.length || 0) / totalKeys < 1, in integers
      keyboardRatioBelowOne == IF kb.totalKeys > 0 THEN Len(kb.testedKeys) < kb.totalKeys
                               ELSE FALSE
      tp == r.interactive.trackpad
      trackpadIssues == FailingNames(<<tp.clickWorking, tp.dragWorking, tp.gestureWorking>>,
                                     <<"click", "drag", "gesture">>)
      sp == r.interactive.speaker
      speakerIssues == FailingNames(<<sp.leftChannel, sp.rightChannel>>,
                                    <<"left channel", "right channel">>)
  IN IssueIf(r.interactive.screen.hasDeadPixel,
             Issue("screen", "warning", "deadPixels", <<>>))
     \o IssueIf(keyboardRatioBelowOne /\ kb.tested,
             Issue("keyboard", "warning", "keyboardNotFullyTested", <<>>))
     \o IssueIf(tp.tested /\ Len(trackpadIssues) > 0,
             Issue("trackpad", "warning", "trackpadIssues", trackpadIssues))
     \o IssueIf(r.interactive.camera.tested /\ ~r.interactive.camera.working,
             Issue("camera", "failed", "cameraNotWorking", <<>>))
     \o IssueIf(r.interactive.microphone.tested /\ ~r.interactive.microphone.working,
             Issue("microphone", "failed", "microphoneNotWorking", <<>>))
     \o IssueIf(sp.tested /\ Len(speakerIssues) > 0,
             Issue("speaker", "warning", "speakerIssues", speakerIssues))

\* collectIssues: replaced parts, refurbishment program, warning indicators.
RefurbishmentIssues(r) ==
  LET refurbished == IF IsNull(r.refurbishment) THEN FALSE
                     ELSE Val(r.refurbishment).isRefurbished
      refurb == Val(r.refurbishment)
  IN IF refurbished
       THEN [i \in 1 .. Len(refurb.replacedParts) |->
               Issue("refurbishment", "warning", "replacedPart",
                     << refurb.replacedParts[i] >>)]
            \o IssueIf(~IsNull(refurb.refurbProgram),
                   Issue("refurbishment", "warning", "certifiedRefurbished",
                         refurb.refurbProgram))
            \o [i \in 1 .. Len(WarningIndicators(refurb.indicators)) |->
                  LET ind == WarningIndicators(refurb.indicators)[i]
                  IN Issue("refurbishment",
                           IF ind.severity = "critical" THEN "failed" ELSE "warning",
                           "indicator", << ind.name >>)]
       ELSE <<>>

\* The same blocks with the refurbishment block moved to the front.
collectIssuesRefurbishmentFirst(r) ==
  RefurbishmentIssues(r) \o BatteryIssues(r) \o StorageIssues(r) \o InteractiveIssues(r)

\* collectIssues of ReportPage, for the report r.
collectIssues(r) ==
  BatteryIssues(r) \o StorageIssues(r) \o InteractiveIssues(r) \o RefurbishmentIssues(r)

\* ------------------------------------------------- interactive outcomes
\* What each test component hands to onComplete.
ScreenResults == {[hasDeadPixel |-> b] : b \in BOOLEAN}

\* handleFinish comparing with the 78 keys of the component's initial record.
KeyboardFinishAgainstInitial(testedCount) ==
  [allPassed |-> testedCount = InitialTotalKeys, testedCount |-> testedCount,
   totalKeys |-> TOTAL_KEYS]

\* KeyboardTest.handleFinish with testedCount registered keys.
KeyboardFinish(testedCount) ==
  [allPassed |-> testedCount = TOTAL_KEYS, testedCount |-> testedCount,
   totalKeys |-> TOTAL_KEYS]
KeyboardResults == {KeyboardFinish(n) : n \in {0, TOTAL_KEYS - 1, TOTAL_KEYS}}

\* TrackpadTest.handleFinish: clickPassed, dragPassed, gestureDetected.
TrackpadResults == [click : BOOLEAN, drag : BOOLEAN, gesture : BOOLEAN]

CameraResults == {[working |-> b] : b \in BOOLEAN}

\* SpeakerTest: 'both normal' gives {left: true, right: true}; 'has issue'
\* gives {left: leftTested, right: rightTested}, the channels played so far.
SpeakerResults == [left : BOOLEAN, right : BOOLEAN]

\* The results handleTestComplete can receive from the test's own buttons.
TestResults(testId) ==
  CASE testId = "screen"   -> ScreenResults
    [] testId = "keyboard" -> KeyboardResults
    [] testId = "trackpad" -> TrackpadResults
    [] testId = "camera"   -> CameraResults
    [] testId = "speaker"  -> SpeakerResults
    [] OTHER               -> {}

\* The answer of a test in which nothing is wrong.
IsPassAnswer(testId, result) ==
  CASE testId = "screen"   -> ~result.hasDeadPixel
    [] testId = "keyboard" -> result.allPassed
    [] testId = "trackpad" -> result.click /\ result.drag /\ result.gesture
    [] testId = "camera"   -> result.working
    [] testId = "speaker"  -> result.left /\ result.right
    [] OTHER               -> result.working

\* Tests whose component renders a skip button wired directly to onSkip.
\* (MicrophoneTest defers onSkip by a timer; SpeakerTest takes no onSkip.)
DirectSkipTests == {"screen", "keyboard", "trackpad", "camera"}

\* Tests whose component renders a skip button at all.
HasSkip(testId) == testId \in DirectSkipTests \/ testId = "microphone"

\* handleTestComplete before continueFromNextStep: the setters applied to d.
handleTestCompleteUpdate(d, testId, result) ==
  LET d0 == [d EXCEPT !.activeTest = NoTest]
      ir == d0.interactiveResults
  IN CASE testId = "screen" ->
            [d0 EXCEPT !.interactiveResults.screen =
                          [@ EXCEPT !.tested = TRUE, !.hasDeadPixel = result.hasDeadPixel],
                       !.steps = updateStepStatus(@, "screen",
                                   IF result.hasDeadPixel THEN "warning" ELSE "passed",
                                   IF result.hasDeadPixel THEN "screen.hasDeadPixel"
                                   ELSE "screen.noDeadPixel")]
       [] testId = "keyboard" ->
            [d0 EXCEPT !.interactiveResults.keyboard =
                          [@ EXCEPT !.tested = TRUE, !.testedCount = result.testedCount,
                                    !.totalKeys = result.totalKeys],
                       !.steps = updateStepStatus(@, "keyboard",
                                   IF result.allPassed THEN "passed" ELSE "warning",
                                   ToString(result.testedCount) \o "/"
                                     \o ToString(result.totalKeys))]
       [] testId = "trackpad" ->
            [d0 EXCEPT !.interactiveResults.trackpad =
                          [@ EXCEPT !.tested = TRUE, !.click = result.click,
                                    !.drag = result.drag, !.gesture = result.gesture],
                       !.steps = updateStepStatus(@, "trackpad",
                                   IF result.click /\ result.drag /\ result.gesture
                                     THEN "passed" ELSE "warning",
                                   IF result.click /\ result.drag /\ result.gesture
                                     THEN "detection.status.passed"
                                     ELSE "detection.status.warning")]
       [] testId = "camera" ->
            [d0 EXCEPT !.interactiveResults.camera =
                          [@ EXCEPT !.tested = TRUE, !.working = result.working],
                       !.steps = updateStepStatus(@, "camera",
                                   IF result.working THEN "passed" ELSE "failed",
                                   IF result.working THEN "camera.working"
                                   ELSE "camera.notWorking")]
       [] testId = "microphone" ->
            [d0 EXCEPT !.interactiveResults.microphone =
                          [@ EXCEPT !.tested = TRUE, !.working = result.working],
                       !.steps = updateStepStatus(@, "microphone",
                                   IF result.working THEN "passed" ELSE "failed",
                                   IF result.working THEN "detection.status.passed"
                                   ELSE "detection.status.failed")]
       [] testId = "speaker" ->
            [d0 EXCEPT !.interactiveResults.speaker =
                          [@ EXCEPT !.tested = TRUE, !.left = result.left,
                                    !.right = result.right],
                       !.steps = updateStepStatus(@, "speaker",
                                   IF result.left /\ result.right THEN "passed"
                                   ELSE "warning",
                                   IF result.left /\ result.right
                                     THEN "detection.status.passed"
                                     ELSE "detection.status.warning")]
       [] OTHER -> d0

\* handleTestSkip before continueFromNextStep: the setters applied to d.
handleTestSkipUpdate(d, testId) ==
  LET d0 == [d EXCEPT !.activeTest = NoTest,
                      !.steps = updateStepStatus(@, testId, "skipped",
                                                 "detection.status.skipped")]
  IN IF testId \in InteractiveIds
       THEN [d0 EXCEPT !.interactiveResults[testId].skipped = TRUE]
       ELSE d0

\* The loop with its bound one short: the last catalog step is never entered.
LoopPassOneShort(d, c, i) ==
  IF i >= Cardinality(DOMAIN c.steps) - 1
    THEN [kind |-> "finish", d |-> d]
    ELSE IF ~c.steps[i].isInteractive
           THEN [kind |-> "probe",
                 d |-> [d EXCEPT !.currentStep = i,
                                 !.steps = updateStepStatus(@, c.steps[i].id, "testing",
                                                            Undefined)]]
           ELSE [kind |-> "suspend",
                 d |-> [d EXCEPT !.currentStep = i, !.activeTest = c.steps[i].id]]

\* The loop returning at an interactive step without showing its test.
LoopPassNoActiveTest(d, c, i) ==
  IF i >= Cardinality(DOMAIN c.steps)
    THEN [kind |-> "finish", d |-> d]
    ELSE IF ~c.steps[i].isInteractive
           THEN [kind |-> "probe",
                 d |-> runAutomaticDetectionBegin([d EXCEPT !.currentStep = i],
                                                  c.steps[i].id)]
           ELSE [kind |-> "suspend", d |-> [d EXCEPT !.currentStep = i]]

\* One pass of the for loop of startDetection / continueFromNextStep at index
\* i, up to its first await or return.  c is the closure whose steps the loop
\* reads, d the component state the setters act on.
\*   "probe":   an automatic step was begun and its probe is awaited;
\*   "suspend": an interactive step was reached, the function returned;
\*   "finish":  the loop is over, finishDetection is called.
LoopPass(d, c, i) ==
  IF i >= Cardinality(DOMAIN c.steps)
    THEN [kind |-> "finish", d |-> d]
    ELSE LET d1 == [d EXCEPT !.currentStep = i]
         IN IF ~c.steps[i].isInteractive
              THEN [kind |-> "probe",
                    d |-> runAutomaticDetectionBegin(d1, c.steps[i].id)]
              ELSE [kind |-> "suspend",
                    d |-> [d1 EXCEPT !.activeTest = c.steps[i].id]]

\* --------------------------------------------------------------- CameraTest
\* The useState initial values of CameraTest, before its effect has run.
\* calls counts the getUserMedia calls still pending, requests those made,
\* streams lists the media streams returned so far, each "live" until its
\* tracks are stopped; ended tells how the test was ended.
InitialCameraTest ==
  [mounted |-> FALSE, ended |-> "no", stream |-> Null, error |-> Null,
   permissionDenied |-> FALSE, isLoading |-> TRUE, calls |-> 0, requests |-> 0,
   streams |-> <<>>]

\* startCamera up to its await: setIsLoading(true), setError(null), and the
\* getUserMedia call.
startCamera(c) ==
  [c EXCEPT !.isLoading = TRUE, !.error = Null, !.calls = @ + 1, !.requests = @ + 1]

\* stopCamera of the current render: the tracks of the stream held in state
\* are stopped and the state is cleared.
stopCamera(c) ==
  IF IsNull(c.stream) THEN c
  ELSE [c EXCEPT !.streams[Val(c.stream)] = "stopped", !.stream = Null]

\* The component leaves the screen after its callback: the effect's cleanup
\* calls the stopCamera of the first render, whose stream is null.
CameraUnmount(c, how) == [c EXCEPT !.mounted = FALSE, !.ended = how]

\* ------------------------------------------------------------- TrackpadTest
\* The useState initial values of TrackpadTest.  dragPath is kept by its
\* length; ever records which sub-tests have passed at some time; result is
\* what handleFinish handed to onComplete.
InitialTrackpadTest ==
  [mounted |-> FALSE, clickCount |-> 0, dragPath |-> 0, isDragging |-> FALSE,
   gestureDetected |-> FALSE,
   ever |-> [click |-> FALSE, drag |-> FALSE, gesture |-> FALSE],
   result |-> Null]

\* const clickPassed = clickCount >= 3
clickPassed(t) == t.clickCount >= ClickThreshold

\* const dragPassed = dragPath.length > 20
dragPassed(t) == t.dragPath > DragThreshold

\* The component state after an event, with the sub-tests it now passes
\* added to those that passed before.
Rendered(t) ==
  [t EXCEPT !.ever = [click |-> @.click \/ clickPassed(t),
                      drag |-> @.drag \/ dragPassed(t),
                      gesture |-> @.gesture \/ t.gestureDetected]]

\* ------------------------------------------------------------------ state
VARIABLES
  currentPage,  \* App: 'home' | 'detection' | 'report'
  report,       \* App: the report held for the ReportPage, or Null
  inst,         \* the run whose DetectionPage is mounted, 0 when none is
  runs,         \* DetectionPage instances mounted so far
  dp,           \* the state of the mounted DetectionPage (its useState cells)
  probes,       \* bag of async calls awaiting invoke(...): [run, i, closure]
  timers,       \* pending setTimeout callbacks, oldest first
  faults,       \* non-healthy outcomes the mounted run has met
  spent,        \* non-healthy outcomes met so far, all runs together
  micClicks,    \* microphone result clicks so far
  completions,  \* per run, how many times onComplete(report) was called
  abandoned,    \* runs whose DetectionPage was left by its back button
  finished,     \* what the finishDetection behind the held report saw
  cameraTest,   \* the CameraTest component with the media streams it acquired
  trackpadTest  \* the TrackpadTest component

vars == <<currentPage, report, inst, runs, dp, probes, timers, faults, spent,
          micClicks, completions, abandoned, finished, cameraTest, trackpadTest>>

\* The state of the App and of the DetectionPage with its pending calls.
appVars == <<currentPage, report, inst, runs, dp, probes, timers, faults, spent,
             micClicks, completions, abandoned, finished>>

RunIds == 1 .. MaxRuns

\* No finishDetection stands behind a report the App holds.
NoFinish ==
  [run |-> 0, live |-> FALSE, source |-> InitialSteps, ledger |-> InitialSteps,
   results |-> InitialInteractiveResults, faults |-> 0]

Init ==
  /\ currentPage = "home"
  /\ report = Null
  /\ inst = 0
  /\ runs = 0
  /\ dp = InitialDetectionPage
  /\ probes = EmptyBag
  /\ timers = <<>>
  /\ faults = 0
  /\ spent = 0
  /\ micClicks = 0
  /\ completions = [r \in RunIds |-> 0]
  /\ abandoned = {}
  /\ finished = NoFinish
  /\ cameraTest = InitialCameraTest
  /\ trackpadTest = InitialTrackpadTest

\* An async call of run r, suspended in loop pass i, its closure being c.
Call(r, i, c) == [run |-> r, i |-> i, closure |-> c]

\* A pending setTimeout callback.  kind is "delay" (the pause after step i),
\* "sensors" (the wait inside the sensors step), or the MicrophoneTest button
\* that was clicked: "normal", "abnormal", "skip".
Timer(ms, kind, r, i, c) == [ms |-> ms, kind |-> kind, run |-> r, i |-> i, closure |-> c]

RemoveAt(s, k) == SubSeq(s, 1, k - 1) \o SubSeq(s, k + 1, Len(s))

\* Timer k may run: no timer started before it with a delay no longer than
\* its own is still pending (the ordering the platform gives setTimeout).
CanFire(k) ==
  /\ k \in 1 .. Len(timers)
  /\ \A j \in 1 .. (k - 1) : timers[j].ms > timers[k].ms

\* The DetectionPage leaves the screen: its state is gone.
Unmount ==
  /\ inst' = 0
  /\ dp' = InitialDetectionPage
  /\ faults' = 0

\* App.handleDetectionComplete
handleDetectionComplete(detectionReport) ==
  /\ report' = Some(detectionReport)
  /\ currentPage' = "report"

\* App.handleBackToHome
handleBackToHome ==
  /\ currentPage' = "home"
  /\ report' = Null
  /\ finished' = NoFinish

\* finishDetection, called by run r in closure c while the live component
\* state is d: the report is built from c and handed to onComplete.
\* finished records what it saw: the steps it read (source), the steps of the
\* live component at that moment (ledger), its interactiveResults at that
\* moment (results), and whether the component was still mounted (live).
finishDetection(r, c, d, f) ==
  /\ handleDetectionComplete(BuildReport(c))
  /\ Unmount
  /\ completions' = [completions EXCEPT ![r] = @ + 1]
  /\ finished' = [run |-> r, live |-> (r = inst),
                  source |-> c.steps,
                  ledger |-> IF r = inst THEN d.steps ELSE InitialSteps,
                  results |-> IF r = inst THEN d.interactiveResults
                              ELSE InitialInteractiveResults,
                  faults |-> IF r = inst THEN f ELSE 0]
  /\ spent' = spent + (f - faults)

\* The for loop of startDetection / continueFromNextStep entered at index i
\* by run r in closure c.  d is the component state after the setters the
\* caller already ran, restProbes and restTimers the other pending calls and
\* f the faults the mounted run has met.
Continue(r, c, i, d, restProbes, restTimers, f) ==
  LET pass == LoopPass(d, c, i)
  IN CASE pass.kind = "probe" ->
            /\ dp' = IF r = inst THEN pass.d ELSE dp
            /\ IF c.steps[i].id = "sensors"
                 THEN /\ probes' = restProbes
                      /\ timers' = Append(restTimers,
                                          Timer(SensorsWaitMs, "sensors", r, i, c))
                 ELSE /\ probes' = restProbes (+) SetToBag({Call(r, i, c)})
                      /\ timers' = restTimers
            /\ faults' = f
            /\ spent' = spent + (f - faults)
            /\ UNCHANGED <<currentPage, report, inst, completions, finished>>
       [] pass.kind = "suspend" ->
            /\ dp' = IF r = inst THEN pass.d ELSE dp
            /\ probes' = restProbes
            /\ timers' = restTimers
            /\ faults' = f
            /\ spent' = spent + (f - faults)
            /\ UNCHANGED <<currentPage, report, inst, completions, finished>>
       [] pass.kind = "finish" ->
            /\ finishDetection(r, c, [pass.d EXCEPT !.isRunning = FALSE], f)
            /\ probes' = restProbes
            /\ timers' = restTimers

\* continueFromNextStep(currentTestId) in closure c.
continueFromNextStep(r, c, currentTestId, d, restProbes, restTimers, f) ==
  LET stepIndex == findIndex(c.steps, currentTestId)
  IN IF stepIndex = -1
       THEN /\ dp' = IF r = inst THEN d ELSE dp
            /\ probes' = restProbes
            /\ timers' = restTimers
            /\ faults' = f
            /\ spent' = spent + (f - faults)
            /\ UNCHANGED <<currentPage, report, inst, completions, finished>>
       ELSE Continue(r, c, stepIndex + 1, d, restProbes, restTimers, f)

\* ---------------------------------------------------------------- actions
\* HomePage start button: App.handleStartDetection mounts a DetectionPage.
handleStartDetection ==
  /\ currentPage = "home"
  /\ currentPage' = "detection"
  /\ runs' = runs + 1
  /\ inst' = runs + 1
  /\ dp' = InitialDetectionPage
  /\ faults' = 0
  /\ UNCHANGED <<report, probes, timers, spent, micClicks, completions, abandoned,
                 finished>>
  /\ UNCHANGED <<cameraTest, trackpadTest>>

\* DetectionPage start button (rendered while !isRunning && currentStep === 0).
startDetection ==
  /\ currentPage = "detection"
  /\ dp.activeTest = NoTest
  /\ ~dp.isRunning /\ dp.currentStep = 0
  /\ Continue(inst, dp, 0, [dp EXCEPT !.isRunning = TRUE], probes, timers, faults)
  /\ UNCHANGED <<runs, micClicks, abandoned>>
  /\ UNCHANGED <<cameraTest, trackpadTest>>

\* The invoke(...) awaited by call p settles; runAutomaticDetection resumes
\* and returns, and the loop starts its pause.
ProbeSettleWith(p, o) ==
  /\ LET stepId == p.closure.steps[p.i].id
         healthy == o.kind = "data" /\ o.data = HealthyOutcome(stepId).data
     IN /\ o \in ProbeOutcomes(stepId)
        /\ IF p.run = inst
             THEN /\ healthy \/ spent < MaxFaults
                  /\ dp' = runAutomaticDetectionSettle(dp, stepId, o)
                  /\ faults' = IF healthy THEN faults ELSE faults + 1
                  /\ spent' = IF healthy THEN spent ELSE spent + 1
             ELSE /\ healthy
                  /\ UNCHANGED <<dp, faults, spent>>
  /\ probes' = probes (-) SetToBag({p})
  /\ timers' = Append(timers, Timer(StepPauseMs, "delay", p.run, p.i, p.closure))
  /\ UNCHANGED <<currentPage, report, inst, runs, micClicks, completions, abandoned,
                 finished>>
  /\ UNCHANGED <<cameraTest, trackpadTest>>

\* A pending invoke(...) settles with one of the outcomes its command has.
ProbeSettle(p) ==
  \E o \in ProbeOutcomes(p.closure.steps[p.i].id) : ProbeSettleWith(p, o)

\* The wait inside the sensors step is over; runAutomaticDetection marks the
\* step and returns, and the loop starts its pause.
SensorsTimeout(k) ==
  /\ CanFire(k)
  /\ timers[k].kind = "sensors"
  /\ dp' = IF timers[k].run = inst
             THEN runAutomaticDetectionSettle(dp, "sensors", Data("timer"))
             ELSE dp
  /\ timers' = Append(RemoveAt(timers, k),
                      Timer(StepPauseMs, "delay", timers[k].run, timers[k].i,
                            timers[k].closure))
  /\ UNCHANGED <<currentPage, report, inst, runs, probes, faults, spent, micClicks,
                 completions, abandoned, finished>>
  /\ UNCHANGED <<cameraTest, trackpadTest>>

\* The pause after a step is over: the loop goes on with the next index.
DelayElapse(k) ==
  /\ CanFire(k)
  /\ timers[k].kind = "delay"
  /\ Continue(timers[k].run, timers[k].closure, timers[k].i + 1, dp, probes,
              RemoveAt(timers, k), faults)
  /\ UNCHANGED <<runs, micClicks, abandoned>>
  /\ UNCHANGED <<cameraTest, trackpadTest>>

\* A result button of the shown test calls onComplete directly.
handleTestComplete(testId, result) ==
  /\ currentPage = "detection"
  /\ dp.activeTest = testId
  /\ result \in TestResults(testId)
  /\ IsPassAnswer(testId, result) \/ spent < MaxFaults
  /\ continueFromNextStep(inst, dp, testId,
                          handleTestCompleteUpdate(dp, testId, result), probes, timers,
                          IF IsPassAnswer(testId, result) THEN faults ELSE faults + 1)
  /\ UNCHANGED <<runs, micClicks, abandoned>>
  /\ UNCHANGED <<cameraTest, trackpadTest>>

\* The skip button of the shown test calls onSkip directly.
handleTestSkip(testId) ==
  /\ currentPage = "detection"
  /\ dp.activeTest = testId
  /\ testId \in DirectSkipTests
  /\ spent < MaxFaults
  /\ continueFromNextStep(inst, dp, testId, handleTestSkipUpdate(dp, testId), probes,
                          timers, faults + 1)
  /\ UNCHANGED <<runs, micClicks, abandoned>>
  /\ UNCHANGED <<cameraTest, trackpadTest>>

\* A result button of MicrophoneTest: cleanup(), then the callback is
\* deferred by setTimeout(..., 50).  The buttons stay on screen until a
\* callback has run.
MicrophoneClick(kind) ==
  /\ currentPage = "detection"
  /\ dp.activeTest = "microphone"
  /\ micClicks < MaxMicClicks
  /\ kind = "normal" \/ spent < MaxFaults
  /\ faults' = IF kind = "normal" THEN faults ELSE faults + 1
  /\ spent' = IF kind = "normal" THEN spent ELSE spent + 1
  /\ micClicks' = micClicks + 1
  /\ timers' = Append(timers, Timer(MicCallbackMs, kind, inst,
                                    findIndex(dp.steps, "microphone"), dp))
  /\ UNCHANGED <<currentPage, report, inst, runs, dp, probes, completions, abandoned,
                 finished>>
  /\ UNCHANGED <<cameraTest, trackpadTest>>

\* A deferred MicrophoneTest callback runs: onComplete(true), onComplete(false)
\* or onSkip() of the render in which the button was clicked.
MicrophoneTimeout(k) ==
  /\ CanFire(k)
  /\ timers[k].kind \in {"normal", "abnormal", "skip"}
  /\ LET d == IF timers[k].kind = "skip"
                THEN handleTestSkipUpdate(dp, "microphone")
                ELSE handleTestCompleteUpdate(dp, "microphone",
                                              [working |-> timers[k].kind = "normal"])
     IN continueFromNextStep(timers[k].run, timers[k].closure, "microphone", d, probes,
                             RemoveAt(timers, k), faults)
  /\ UNCHANGED <<runs, micClicks, abandoned>>
  /\ UNCHANGED <<cameraTest, trackpadTest>>

\* The back button of the DetectionPage (rendered while no test is shown).
DetectionBack ==
  /\ currentPage = "detection"
  /\ dp.activeTest = NoTest
  /\ handleBackToHome
  /\ Unmount
  /\ abandoned' = abandoned \cup {inst}
  /\ UNCHANGED <<runs, probes, timers, spent, micClicks, completions>>
  /\ UNCHANGED <<cameraTest, trackpadTest>>

\* The back button of the ReportPage (rendered while report is set).
ReportBack ==
  /\ currentPage = "report"
  /\ ~IsNull(report)
  /\ handleBackToHome
  /\ UNCHANGED <<inst, runs, dp, probes, timers, faults, spent, micClicks, completions,
                 abandoned>>
  /\ UNCHANGED <<cameraTest, trackpadTest>>

\* Everything that can happen once a DetectionPage has been mounted.
Session ==
  \/ startDetection
  \/ \E p \in BagToSet(probes) : ProbeSettle(p)
  \/ \E k \in 1 .. Len(timers) : SensorsTimeout(k)
  \/ \E k \in 1 .. Len(timers) : DelayElapse(k)
  \/ \E testId \in InteractiveIds : \E result \in TestResults(testId) :
       handleTestComplete(testId, result)
  \/ \E testId \in InteractiveIds : handleTestSkip(testId)
  \/ \E kind \in {"normal", "abnormal", "skip"} : MicrophoneClick(kind)
  \/ \E k \in 1 .. Len(timers) : MicrophoneTimeout(k)
  \/ DetectionBack
  \/ ReportBack

\* One detection session: the App mounts the DetectionPage once.
Next ==
  \/ runs < 1 /\ handleStartDetection
  \/ Session

Spec == Init /\ [][Next]_vars

\* ------------------------------------------------------ CameraTest actions
\* CameraTest is mounted: its effect calls startCamera.
CameraMount ==
  /\ ~cameraTest.mounted /\ cameraTest.ended = "no"
  /\ cameraTest' = startCamera([cameraTest EXCEPT !.mounted = TRUE])
  /\ UNCHANGED <<appVars, trackpadTest>>

\* The Retry button, shown while permissionDenied: startCamera again.
CameraRetry ==
  /\ cameraTest.mounted /\ cameraTest.permissionDenied
  /\ cameraTest.requests < MaxCameraRequests
  /\ cameraTest' = startCamera(cameraTest)
  /\ UNCHANGED <<appVars, trackpadTest>>

\* A pending getUserMedia resolves with a new stream.  A mounted component
\* stores it (setStream) without looking at the one it holds; an unmounted
\* one stores nothing.  Either way nothing stops the stream here.
GetUserMediaResolves ==
  /\ cameraTest.calls > 0
  /\ LET c == [cameraTest EXCEPT !.calls = @ - 1, !.streams = Append(@, "live")]
     IN cameraTest' =
          IF cameraTest.mounted
            THEN [c EXCEPT !.stream = Some(Len(c.streams)),
                           !.permissionDenied = FALSE, !.isLoading = FALSE]
            ELSE c
  /\ UNCHANGED <<appVars, trackpadTest>>

\* A pending getUserMedia rejects, with NotAllowedError (denied) or another
\* error: the catch and finally blocks of startCamera.
GetUserMediaRejects(denied) ==
  /\ cameraTest.calls > 0
  /\ LET c == [cameraTest EXCEPT !.calls = @ - 1]
     IN cameraTest' =
          IF cameraTest.mounted
            THEN IF denied
                   THEN [c EXCEPT !.permissionDenied = TRUE, !.error = Some("denied"),
                                  !.isLoading = FALSE]
                   ELSE [c EXCEPT !.error = Some("unable"), !.isLoading = FALSE]
            ELSE c
  /\ UNCHANGED <<appVars, trackpadTest>>

\* The 'working' (disabled while isLoading) and 'not working' buttons:
\* handleFinish; the parent then removes the component.
CameraFinish(working) ==
  /\ cameraTest.mounted
  /\ working => ~cameraTest.isLoading
  /\ cameraTest' = CameraUnmount(stopCamera(cameraTest),
                                 IF working THEN "working" ELSE "notWorking")
  /\ UNCHANGED <<appVars, trackpadTest>>

\* The skip button: handleSkip; the parent then removes the component.
CameraSkip ==
  /\ cameraTest.mounted
  /\ cameraTest' = CameraUnmount(stopCamera(cameraTest), "skip")
  /\ UNCHANGED <<appVars, trackpadTest>>

\* The CameraTest component from its mount on.
NextCamera ==
  \/ CameraMount
  \/ CameraRetry
  \/ GetUserMediaResolves
  \/ \E denied \in BOOLEAN : GetUserMediaRejects(denied)
  \/ \E working \in BOOLEAN : CameraFinish(working)
  \/ CameraSkip

SpecCamera == Init /\ [][NextCamera]_vars

\* ---------------------------------------------------- TrackpadTest actions
\* TrackpadTest is mounted.
TrackpadMount ==
  /\ ~trackpadTest.mounted /\ IsNull(trackpadTest.result)
  /\ trackpadTest' = [trackpadTest EXCEPT !.mounted = TRUE]
  /\ UNCHANGED <<appVars, cameraTest>>

\* handleMouseDown: setIsDragging(true), setDragPath([point]).
handleMouseDown ==
  /\ trackpadTest.mounted /\ ~trackpadTest.isDragging
  /\ trackpadTest' = Rendered([trackpadTest EXCEPT !.isDragging = TRUE, !.dragPath = 1])
  /\ UNCHANGED <<appVars, cameraTest>>

\* handleMouseMove: while dragging, the point is appended to dragPath.
handleMouseMove ==
  /\ trackpadTest.mounted /\ trackpadTest.isDragging
  /\ trackpadTest.dragPath < MaxDragPath
  /\ trackpadTest' = Rendered([trackpadTest EXCEPT !.dragPath = @ + 1])
  /\ UNCHANGED <<appVars, cameraTest>>

\* The button is released over the test area: handleMouseUp, then the click
\* event that follows it, handleClick.
MouseUpAndClick ==
  /\ trackpadTest.mounted /\ trackpadTest.isDragging
  /\ trackpadTest.clickCount < MaxClicks
  /\ trackpadTest' = Rendered([trackpadTest EXCEPT !.isDragging = FALSE,
                                                   !.clickCount = @ + 1])
  /\ UNCHANGED <<appVars, cameraTest>>

\* The pointer leaves the test area with the button down: handleMouseUp
\* (onMouseLeave), and no click event.
MouseLeave ==
  /\ trackpadTest.mounted /\ trackpadTest.isDragging
  /\ trackpadTest' = Rendered([trackpadTest EXCEPT !.isDragging = FALSE])
  /\ UNCHANGED <<appVars, cameraTest>>

\* handleWheel: setGestureDetected(true).
handleWheel ==
  /\ trackpadTest.mounted /\ ~trackpadTest.gestureDetected
  /\ trackpadTest' = Rendered([trackpadTest EXCEPT !.gestureDetected = TRUE])
  /\ UNCHANGED <<appVars, cameraTest>>

\* The Finish button: handleFinish hands the three flags of the current
\* render to onComplete; the parent then removes the component.
TrackpadFinish ==
  /\ trackpadTest.mounted
  /\ trackpadTest' = [trackpadTest EXCEPT
                        !.mounted = FALSE,
                        !.result = Some([click |-> clickPassed(trackpadTest),
                                         drag |-> dragPassed(trackpadTest),
                                         gesture |-> trackpadTest.gestureDetected])]
  /\ UNCHANGED <<appVars, cameraTest>>

\* The TrackpadTest component from its mount on.
NextTrackpad ==
  \/ TrackpadMount
  \/ handleMouseDown
  \/ handleMouseMove
  \/ MouseUpAndClick
  \/ MouseLeave
  \/ handleWheel
  \/ TrackpadFinish

SpecTrackpad == Init /\ [][NextTrackpad]_vars

\* The user acts on the interactive test that is shown.
UserAnswers ==
  \/ \E testId \in InteractiveIds : \E result \in TestResults(testId) :
       handleTestComplete(testId, result)
  \/ \E testId \in InteractiveIds : handleTestSkip(testId)
  \/ \E kind \in {"normal", "abnormal", "skip"} : MicrophoneClick(kind)

\* A pending setTimeout callback runs.
TimerFires ==
  \E k \in 1 .. Len(timers) : SensorsTimeout(k) \/ DelayElapse(k) \/ MicrophoneTimeout(k)

\* One session in which every pending probe call settles, every pending
\* timer fires and the user answers or skips the test that is shown.
SpecLive ==
  /\ Init /\ [][Next]_vars
  /\ WF_vars(\E p \in BagToSet(probes) : ProbeSettle(p))
  /\ WF_vars(TimerFires)
  /\ WF_vars(UserAnswers)

\* The App over several sessions: every visit of the home page may start a
\* new DetectionPage while calls of earlier ones are still pending.
NextApp ==
  \/ runs < MaxRuns /\ handleStartDetection
  \/ Session

SpecApp == Init /\ [][NextApp]_vars

\* ------------------------------------------------------------ properties
\* Statuses a step ends with.
FinalStatuses == {"passed", "warning", "failed", "skipped"}

\* The App shows a report of a run that finished while its page was mounted.
ReportOfLiveRun == currentPage = "report" /\ ~IsNull(report) /\ finished.live

\* Calls of run r that are executing an automatic step or the pause after it.
PendingCalls(r) ==
  Cardinality({k \in 1 .. Len(timers) :
                 timers[k].run = r /\ timers[k].kind \in {"sensors", "delay"}})
  + BagCardinality([p \in {q \in BagToSet(probes) : q.run = r} |-> probes[p]])

\* C1: a run in which every probe settled healthy and every test was answered
\* 'pass' yields a report whose overallScore is 100.
C1_AllPassScore100 ==
  (ReportOfLiveRun /\ finished.faults = 0) => Val(report).overallScore = 100

\* C2: a run in which every probe settled healthy and every test was answered
\* 'pass' yields a report whose issue list is empty.
C2_AllPassNoIssues ==
  (ReportOfLiveRun /\ finished.faults = 0) => collectIssues(Val(report)) = <<>>

\* C3: the overallScore of a completed run is round((P + 0.5 W) / 12 * 100)
\* with P and W counted in the ledger as it stands after the last step.
C3_ScoreOfFinalLedger ==
  ReportOfLiveRun =>
    Val(report).overallScore =
      Score(CountStatus(finished.ledger, "passed"),
            CountStatus(finished.ledger, "warning"), NumSteps)

\* C4: in the ledger the report is computed from, every step has a final
\* status, so passed + warning + failed + skipped = 12.
C4_NoPendingAtCompletion ==
  finished.run # 0 =>
    /\ \A i \in StepIndices : finished.source[i].status \in FinalStatuses
    /\ CountStatus(finished.source, "passed") + CountStatus(finished.source, "warning")
         + CountStatus(finished.source, "failed")
         + CountStatus(finished.source, "skipped") = NumSteps

\* The buttons of MicrophoneTest.
MicrophoneButtons == {"normal", "abnormal", "skip"}

\* C5: a MicrophoneTest callback that reaches the mounted run while the
\* microphone test is not the one shown (a duplicate or late signal) changes
\* neither the ledger nor any measurement.
C5_LateSignalRejected ==
  [][\A k \in 1 .. Len(timers) :
       (/\ inst # 0
        /\ timers[k].run = inst
        /\ dp.activeTest # "microphone"
        /\ MicrophoneTimeout(k))
       => /\ dp'.steps = dp.steps
          /\ dp'.interactiveResults = dp.interactiveResults]_vars

\* C6: once the back button has left a run, no report built by that run is
\* ever delivered to the App.
C6_AbandonedRunDiscarded ==
  currentPage = "report" => finished.run \notin abandoned

\* C7: while the mounted run is suspended at an interactive test, no call of
\* it is executing an automatic step.
C7_FrozenWhileSuspended ==
  (inst # 0 /\ dp.activeTest # NoTest) => PendingCalls(inst) = 0

\* C8: at most one automatic step of a run is in flight at any time.
C8_OneProbeInFlight ==
  \A r \in RunIds : PendingCalls(r) <= 1

\* C9: a step whose status is passed, warning, failed or skipped keeps that
\* status for the rest of the run.
C9_FinalStatusAbsorbing ==
  [][(inst # 0 /\ inst' = inst) =>
       \A i \in StepIndices :
         dp.steps[i].status \in FinalStatuses
           => dp'.steps[i].status = dp.steps[i].status]_vars

\* C10: onComplete(report) is called at most once per run.
C10_CompleteOnce ==
  \A r \in RunIds : completions[r] <= 1

\* C11: a probe call that fails gives its step a final status and the loop
\* goes on: the pause before the next catalog step is started.
C11_ProbeFailureNotFatal ==
  [][\A p \in BagToSet(probes) :
       (p.run = inst /\ ProbeSettleWith(p, Rejected))
       => /\ dp'.steps[p.i].status \in FinalStatuses
          /\ \E k \in 1 .. Len(timers') :
               /\ timers'[k].kind = "delay"
               /\ timers'[k].run = p.run
               /\ timers'[k].i = p.i]_vars

\* C11 witness: a run whose hardware probe was rejected delivered its report.
C11_Witness ==
  ReportOfLiveRun /\ finished.ledger[0].status = "failed"

\* C12: while the mounted run is suspended at an interactive step, the
\* ledger status of that step is testing.
C12_SuspendedStepTesting ==
  (inst # 0 /\ dp.activeTest # NoTest)
    => dp.steps[findIndex(dp.steps, dp.activeTest)].status = "testing"

\* C13: in every report the App holds, the summary counts are non-negative
\* and summary.passed + summary.warning + summary.failed is the step count.
C13_SummarySumsToStepCount ==
  ~IsNull(report) =>
    LET summary == Val(report).summary
    IN /\ summary.passed >= 0 /\ summary.warning >= 0 /\ summary.failed >= 0
       /\ summary.passed + summary.warning + summary.failed = NumSteps

\* C14: the overallScore of every report the App holds is an integer
\* between 0 and 100.
C14_ScoreInRange ==
  /\ \A p \in 0 .. NumSteps : \A w \in 0 .. (NumSteps - p) :
       Score(p, w, NumSteps) \in 0 .. 100
  /\ ~IsNull(report) => Val(report).overallScore \in 0 .. 100

\* C14 witness: a report of a run that met non-healthy outcomes.
C14_Witness ==
  ReportOfLiveRun /\ finished.faults > 0 /\ Val(report).overallScore < 83

\* C15: at every interactive step the run is suspended at, the shown test
\* offers a skip to the user.
C15_SkipAvailable ==
  (inst # 0 /\ dp.activeTest # NoTest) => HasSkip(dp.activeTest)

\* Categories of the issues of report r.
IssueCategories(r) == {collectIssues(r)[k].category : k \in 1 .. Len(collectIssues(r))}

\* C16: in a delivered report, no interactive step that ended the run with
\* status skipped has an issue of its category.
C16_SkippedNoIssue ==
  ReportOfLiveRun =>
    \A id \in InteractiveIds :
      finished.ledger[findIndex(finished.ledger, id)].status = "skipped"
        => id \notin IssueCategories(Val(report))

\* The measurement records of the component state d, by category.
RawMeasurements(d) ==
  [hardware |-> d.hardwareData, battery |-> d.batteryData, storage |-> d.storageData,
   refurbishment |-> d.refurbishmentData, interactive |-> d.interactiveResults]

\* The record of an interactive category has been written.
Written(d, id) == d.interactiveResults[id].tested \/ d.interactiveResults[id].skipped

\* C17: within a run, a measurement record that has been written is not
\* written again with another content.
C17_WrittenOnce ==
  [][(inst # 0 /\ inst' = inst) =>
       /\ \A id \in InteractiveIds :
            Written(dp, id) => dp'.interactiveResults[id] = dp.interactiveResults[id]
       /\ \A cat \in {"hardware", "battery", "storage", "refurbishment"} :
            ~IsNull(RawMeasurements(dp)[cat])
              => RawMeasurements(dp')[cat] = RawMeasurements(dp)[cat]]_vars

\* C18: the App holds a report only on the report page, with no
\* DetectionPage mounted, and a report arrives only in the step in which the
\* pause after the last catalog step is over.
C18_ReportOnlyAfterCompletion ==
  [][/\ ~IsNull(report') => (currentPage' = "report" /\ inst' = 0)
     /\ (report' # report /\ ~IsNull(report'))
          => \E k \in 1 .. Len(timers) :
               /\ CanFire(k)
               /\ timers[k].kind = "delay"
               /\ timers[k].i = NumSteps - 1
               /\ timers' = RemoveAt(timers, k)
               /\ completions' = [completions EXCEPT ![timers[k].run] = @ + 1]]_vars

\* C18 witness: the report of the first run is held and shown.
C18_Witness ==
  ~IsNull(report) /\ currentPage = "report" /\ inst = 0 /\ completions[1] = 1

\* The battery status the rule gives for health h, in tenths of a percent:
\* passed from 80, warning from 60, failed below.
BatteryStatusOfHealth(h) ==
  IF h >= 800 THEN "passed" ELSE IF h >= 600 THEN "warning" ELSE "failed"

\* C19: once the battery step has its status, it is the one the rule gives
\* for the health the probe returned, and warning when the probe failed or
\* returned nothing.
C19_BatteryStatusRule ==
  (inst # 0 /\ dp.steps[findIndex(dp.steps, "battery")].status \in FinalStatuses)
    => dp.steps[findIndex(dp.steps, "battery")].status =
         IF IsNull(dp.batteryData) THEN "warning"
         ELSE BatteryStatusOfHealth(Val(dp.batteryData).health)

StatusOf(id) == dp.steps[findIndex(dp.steps, id)].status

\* C21: once the refurbishment step has its status, it is warning when the
\* probe returned a detected refurbishment with at least one indicator of
\* severity warning or critical, and passed otherwise (nothing detected, no
\* such indicator, or the probe failed).
C21_RefurbishmentStatusRule ==
  (inst # 0 /\ StatusOf("refurbishment") \in FinalStatuses)
    => StatusOf("refurbishment") =
         IF /\ ~IsNull(dp.refurbishmentData)
            /\ Val(dp.refurbishmentData).is_refurbished
            /\ \E j \in 1 .. Len(Val(dp.refurbishmentData).indicators) :
                 Val(dp.refurbishmentData).indicators[j].severity
                   \in {"warning", "critical"}
           THEN "warning" ELSE "passed"

\* C21 witness: a detected refurbishment with warning indicators was marked
\* warning.
C21_Witness ==
  /\ inst # 0
  /\ ~IsNull(dp.refurbishmentData)
  /\ Val(dp.refurbishmentData).is_refurbished
  /\ StatusOf("refurbishment") = "warning"

\* C22: once the hardware, network or sensors step has a final status, that
\* status is passed.
C22_InformationalStepsPassed ==
  inst # 0 =>
    \A id \in {"hardware", "network", "sensors"} :
      StatusOf(id) \in FinalStatuses => StatusOf(id) = "passed"

\* The status the rules give an interactive step for a result.
ResultStatus(testId, result) ==
  CASE testId = "screen"   -> IF result.hasDeadPixel THEN "warning" ELSE "passed"
    [] testId = "keyboard" -> IF result.testedCount = TOTAL_KEYS THEN "passed"
                              ELSE "warning"
    [] testId = "trackpad" -> IF result.click /\ result.drag /\ result.gesture
                                THEN "passed" ELSE "warning"
    [] testId = "speaker"  -> IF result.left /\ result.right THEN "passed" ELSE "warning"
    [] OTHER               -> IF result.working THEN "passed" ELSE "failed"

\* C23: the step in which an interactive test hands over a result gives the
\* ledger entry of that test the status the rules give for the result.
C23_InteractiveStatusRule ==
  [][/\ \A testId \in InteractiveIds : \A result \in TestResults(testId) :
          handleTestComplete(testId, result)
            => dp'.steps[findIndex(dp.steps, testId)].status
                 = ResultStatus(testId, result)
     /\ \A k \in 1 .. Len(timers) :
          (/\ timers[k].run = inst
           /\ timers[k].kind \in {"normal", "abnormal"}
           /\ MicrophoneTimeout(k))
          => dp'.steps[findIndex(dp.steps, "microphone")].status
               = ResultStatus("microphone", [working |-> timers[k].kind = "normal"])]_vars

\* C23 witness: the keyboard test registered every catalog key and the step
\* is passed.
C23_Witness ==
  /\ inst # 0
  /\ dp.interactiveResults.keyboard.tested
  /\ dp.interactiveResults.keyboard.testedCount = TOTAL_KEYS
  /\ StatusOf("keyboard") = "passed"

\* The issues of report r raised by the given rule.
IssuesOfRule(r, rule) ==
  SelectSeq(collectIssues(r), LAMBDA issue : issue.rule = rule)

\* C24: for the battery reading the probe returned, with health h, the
\* delivered report has exactly one battery-health issue, failed, if h < 60,
\* exactly one, warning, if 60 <= h < 80, and none if h >= 80.
C24_BatteryHealthIssue ==
  (ReportOfLiveRun /\ ~IsNull(Val(report).rawData.battery)) =>
    LET h == Val(Val(report).rawData.battery).health
        found == IssuesOfRule(Val(report), "batteryHealth")
    IN IF h >= 800 THEN Len(found) = 0
       ELSE /\ Len(found) = 1
            /\ found[1].category = "battery"
            /\ found[1].level = IF h < 600 THEN "failed" ELSE "warning"

\* C25: when the storage probe returned a SMART status, the delivered
\* report has a storage issue iff that status is neither Verified nor
\* Healthy, and every storage issue has severity failed.
C25_StorageIssue ==
  (ReportOfLiveRun /\ ~IsNull(Val(report).rawData.storage)) =>
    LET found == IssuesOfRule(Val(report), "storageHealth")
    IN /\ Len(found) > 0
            <=> Val(Val(report).rawData.storage).smart_status \notin {"Verified", "Healthy"}
       /\ \A k \in 1 .. Len(found) : found[k].level = "failed"

\* C26: a run whose keyboard test registered every catalog key (the step
\* ended passed) delivers a report without a keyboard issue.
C26_FullKeyboardNoIssue ==
  (ReportOfLiveRun /\ finished.results.keyboard.tested
     /\ ~finished.results.keyboard.skipped
     /\ finished.results.keyboard.testedCount = TOTAL_KEYS)
    => "keyboard" \notin IssueCategories(Val(report))

\* Number of issues of report r raised by the given rule with the given data.
CountIssues(r, rule, data) ==
  Cardinality({k \in 1 .. Len(collectIssues(r)) :
                 collectIssues(r)[k].rule = rule /\ collectIssues(r)[k].data = data})

\* The issues of report r cover the refurbishment reading d: one issue per
\* warning or critical indicator (critical as failed, warning as warning),
\* one per replaced part, none for an info indicator.
RefurbishmentCovered(r, d) ==
  /\ \A j \in 1 .. Len(d.indicators) :
       IF d.indicators[j].severity \in {"warning", "critical"}
         THEN /\ CountIssues(r, "indicator", << d.indicators[j].name >>) = 1
              /\ \A k \in 1 .. Len(collectIssues(r)) :
                   (collectIssues(r)[k].rule = "indicator"
                      /\ collectIssues(r)[k].data = << d.indicators[j].name >>)
                   => collectIssues(r)[k].level =
                        IF d.indicators[j].severity = "critical" THEN "failed"
                        ELSE "warning"
         ELSE CountIssues(r, "indicator", << d.indicators[j].name >>) = 0
  /\ \A j \in 1 .. Len(d.replaced_parts) :
       CountIssues(r, "replacedPart", << d.replaced_parts[j] >>) = 1

\* C27 as stated: whatever refurbishment reading the probe returned, the
\* delivered report's issues cover its indicators and replaced parts.
C27_RefurbishmentIssuesAlways ==
  (ReportOfLiveRun /\ ~IsNull(Val(report).rawData.refurbishment))
    => RefurbishmentCovered(Val(report), Val(Val(report).rawData.refurbishment))

\* C27 amended: the issues cover the indicators and replaced parts of a
\* reading that reports the device as refurbished; a reading that does not
\* yields no refurbishment issue at all.
C27_RefurbishmentIssuesWhenDetected ==
  (ReportOfLiveRun /\ ~IsNull(Val(report).rawData.refurbishment))
    => IF Val(Val(report).rawData.refurbishment).is_refurbished
         THEN RefurbishmentCovered(Val(report), Val(Val(report).rawData.refurbishment))
         ELSE "refurbishment" \notin IssueCategories(Val(report))

\* C27 witness: a report for a refurbished reading with an info, a warning
\* and a critical indicator and a replaced part.
C27_Witness ==
  /\ ReportOfLiveRun
  /\ ~IsNull(Val(report).rawData.refurbishment)
  /\ Val(Val(report).rawData.refurbishment).is_refurbished
  /\ Len(Val(Val(report).rawData.refurbishment).indicators) = 3
  /\ Len(IssuesOfRule(Val(report), "indicator")) = 2

\* The issue collectIssues is expected to raise for a test record: none, or
\* the single issue of the given rule.
ExpectedIssue(cond, category, level, rule, data) ==
  IF cond THEN << Issue(category, level, rule, data) >> ELSE <<>>

\* The trackpad issue of the delivered report agrees with the trackpad record
\* the run ended with.
TrackpadIssueAgrees ==
  LET tp == finished.results.trackpad
      names == FailingNames(<< tp.click, tp.drag, tp.gesture >>,
                            << "click", "drag", "gesture" >>)
  IN IssuesOfRule(Val(report), "trackpadIssues")
       = ExpectedIssue(tp.tested /\ Len(names) > 0,
                       "trackpad", "warning", "trackpadIssues", names)

\* The same for the camera record.
CameraIssueAgrees ==
  IssuesOfRule(Val(report), "cameraNotWorking")
    = ExpectedIssue(finished.results.camera.tested /\ ~finished.results.camera.working,
                    "camera", "failed", "cameraNotWorking", <<>>)

\* The same for the microphone record.
MicrophoneIssueAgrees ==
  IssuesOfRule(Val(report), "microphoneNotWorking")
    = ExpectedIssue(finished.results.microphone.tested
                      /\ ~finished.results.microphone.working,
                    "microphone", "failed", "microphoneNotWorking", <<>>)

\* The same for the speaker record.
SpeakerIssueAgrees ==
  LET sp == finished.results.speaker
      names == FailingNames(<< sp.left, sp.right >>,
                            << "left channel", "right channel" >>)
  IN IssuesOfRule(Val(report), "speakerIssues")
       = ExpectedIssue(sp.tested /\ Len(names) > 0,
                       "speaker", "warning", "speakerIssues", names)

\* C28: in a delivered report, a tested trackpad with a failing sub-function
\* has one warning issue naming exactly the failing sub-functions, a tested
\* camera or microphone that is not working has one failed issue, a tested
\* speaker with a false channel has one warning issue naming exactly the
\* failing channels, and otherwise these categories have no issue.
C28_InteractiveIssues ==
  ReportOfLiveRun =>
    /\ TrackpadIssueAgrees
    /\ CameraIssueAgrees
    /\ MicrophoneIssueAgrees
    /\ SpeakerIssueAgrees

\* C29: for the battery reading the probe returned, with cycle count c, the
\* delivered report has exactly one cycle-count issue, failed, if c > 800,
\* exactly one, warning, if 500 < c <= 800, and none if c <= 500.
C29_CycleCountIssue ==
  (ReportOfLiveRun /\ ~IsNull(Val(report).rawData.battery)) =>
    LET c == Val(Val(report).rawData.battery).cycle_count
        found == IssuesOfRule(Val(report), "batteryCycles")
    IN IF c <= 500 THEN Len(found) = 0
       ELSE /\ Len(found) = 1
            /\ found[1].category = "battery"
            /\ found[1].level = IF c > 800 THEN "failed" ELSE "warning"

\* C29 witness: a report for a reading of more than 800 cycles, with its
\* failed cycle-count issue.
C29_Witness ==
  /\ ReportOfLiveRun
  /\ ~IsNull(Val(report).rawData.battery)
  /\ Val(Val(report).rawData.battery).cycle_count > 800
  /\ Len(IssuesOfRule(Val(report), "batteryCycles")) = 1

\* The rules of collectIssues in the order of their blocks in the code.
RuleOrder ==
  << "batteryHealth", "batteryCycles", "storageHealth", "deadPixels",
     "keyboardNotFullyTested", "trackpadIssues", "cameraNotWorking",
     "microphoneNotWorking", "speakerIssues", "replacedPart",
     "certifiedRefurbished", "indicator" >>

RuleRank(rule) == CHOOSE i \in 1 .. Len(RuleOrder) : RuleOrder[i] = rule

\* The first data item of each issue raised by the given rule, in list order.
ItemsOfRule(r, rule) ==
  [i \in 1 .. Len(IssuesOfRule(r, rule)) |-> IssuesOfRule(r, rule)[i].data[1]]

\* The names of the warning and critical indicators of a reading, in order.
NamesOfWarningIndicators(d) ==
  LET kept == SelectSeq(d.indicators,
                        LAMBDA ind : ind.severity \in {"warning", "critical"})
  IN [i \in 1 .. Len(kept) |-> kept[i].name]

\* C30: the issues of a delivered report follow the fixed order of the rules
\* (battery health, cycle count, storage, screen, keyboard, trackpad, camera,
\* microphone, speaker, replaced parts, refurbishment programme, indicators):
\* no issue of a later rule precedes one of an earlier rule, only replaced
\* parts and indicators repeat, and these follow the order of the reading.
C30_IssueOrder ==
  ReportOfLiveRun =>
    LET r == Val(report)
        issues == collectIssues(r)
    IN /\ \A j, k \in 1 .. Len(issues) :
            j < k => \/ RuleRank(issues[j].rule) < RuleRank(issues[k].rule)
                     \/ /\ issues[j].rule = issues[k].rule
                        /\ issues[j].rule \in {"replacedPart", "indicator"}
       /\ (~IsNull(r.rawData.refurbishment)
             /\ Val(r.rawData.refurbishment).is_refurbished)
            => /\ ItemsOfRule(r, "replacedPart")
                    = Val(r.rawData.refurbishment).replaced_parts
               /\ ItemsOfRule(r, "indicator")
                    = NamesOfWarningIndicators(Val(r.rawData.refurbishment))

\* C30 witness: a report with a battery issue, two replaced parts, the
\* programme and two indicators.
C30_Witness ==
  /\ ReportOfLiveRun
  /\ Len(IssuesOfRule(Val(report), "batteryCycles")) = 1
  /\ Len(IssuesOfRule(Val(report), "replacedPart")) = 2
  /\ Len(IssuesOfRule(Val(report), "certifiedRefurbished")) = 1
  /\ Len(IssuesOfRule(Val(report), "indicator")) = 2

\* isZh ? <Chinese text> : <English text>: a text of the rendered language.
Localized(isZh, text) == << IF isZh THEN "zh" ELSE "en", text >>

\* A classifier that lists the failed issues first when the language is
\* Chinese.
collectIssuesFailedFirstInChinese(r, isZh) ==
  LET ordered == IF isZh
                   THEN SelectSeq(collectIssues(r), LAMBDA issue : issue.level = "failed")
                        \o SelectSeq(collectIssues(r), LAMBDA issue : issue.level # "failed")
                   ELSE collectIssues(r)
  IN [issues |-> [k \in 1 .. Len(ordered) |->
                    [category |-> ordered[k].category, level |-> ordered[k].level,
                     title |-> Localized(isZh, ordered[k].rule),
                     data |-> [i \in 1 .. Len(ordered[k].data) |->
                                 Localized(isZh, ordered[k].data[i])]]],
      report |-> r]

\* One call of collectIssues by a render of the ReportPage in the language
\* isZh: the issues it returns, with their localized title and names, and the
\* report object as the call leaves it (the code reads it and assigns nothing).
collectIssuesIn(r, isZh) ==
  [issues |-> [k \in 1 .. Len(collectIssues(r)) |->
                 [category |-> collectIssues(r)[k].category,
                  level |-> collectIssues(r)[k].level,
                  title |-> Localized(isZh, collectIssues(r)[k].rule),
                  data |-> [i \in 1 .. Len(collectIssues(r)[k].data) |->
                              Localized(isZh, collectIssues(r)[k].data[i])]]],
   report |-> r]

\* The categories and severities of an issue list, in its order.
Structure(issues) ==
  [k \in 1 .. Len(issues) |-> [category |-> issues[k].category, level |-> issues[k].level]]

RunInProgress == inst # 0 /\ dp.isRunning

\* C32: with probes that settle and a user who answers or skips each test
\* shown, a started run that is not abandoned completes and delivers its
\* report; until then it always has an automatic step executing or an
\* interactive test shown.
C32_RunCompletes ==
  /\ [](RunInProgress => (PendingCalls(inst) > 0 \/ dp.activeTest # NoTest))
  /\ \A r \in RunIds :
       (inst = r /\ dp.isRunning) ~> (completions[r] > 0 \/ r \in abandoned)

\* C32 witness: the run that was started has delivered its report without
\* having been abandoned.
C32_Witness ==
  /\ currentPage = "report"
  /\ ~IsNull(report)
  /\ \E r \in RunIds : completions[r] = 1 /\ r \notin abandoned /\ finished.run = r

\* The entries of the mounted ledger that a step of the system changes.
ChangedEntries == {i \in StepIndices : dp'.steps[i] # dp.steps[i]}

\* The entries handling the end of test testId may write: its own, and the
\* automatic step the loop begins right after it, if there is one.
EntriesOfTest(testId) ==
  LET i == findIndex(dp.steps, testId)
  IN {i} \cup {j \in {i + 1} : j \in StepIndices /\ ~dp.steps[j].isInteractive}

\* C33: the ledger holds one entry per catalog step, in catalog order, with
\* the catalog's interactive flags, all pending before the run is started;
\* updateStepStatus applied to it changes the status and value of the
\* targeted entry only; and a settling probe or an answered or skipped test
\* changes no entry but the targeted ones.
C33_LedgerFrame ==
  /\ [](/\ DOMAIN dp.steps = StepIndices
        /\ \A i \in StepIndices :
             /\ dp.steps[i].id = StepIds[i + 1]
             /\ dp.steps[i].isInteractive = (StepIds[i + 1] \in InteractiveIds)
        /\ ~dp.isRunning => \A i \in StepIndices : dp.steps[i].status = "pending"
        /\ \A i \in StepIndices :
             \A status \in {"testing", "passed", "warning", "failed", "skipped"} :
               LET updated == updateStepStatus(dp.steps, StepIds[i + 1], status, "value")
               IN /\ DOMAIN updated = StepIndices
                  /\ updated[i] = [dp.steps[i] EXCEPT !.status = status,
                                                      !.value = "value"]
                  /\ \A j \in StepIndices \ {i} : updated[j] = dp.steps[j])
  /\ [][\A p \in BagToSet(probes) :
          (ProbeSettle(p) /\ p.run = inst) => ChangedEntries \subseteq {p.i}]_vars
  /\ [][\A testId \in InteractiveIds :
          ((\E result \in TestResults(testId) : handleTestComplete(testId, result))
             \/ handleTestSkip(testId))
          => ChangedEntries \subseteq EntriesOfTest(testId)]_vars

\* C33 witness: a ledger in which automatic and interactive steps have been
\* written while later steps are still pending.
C33_Witness ==
  /\ inst # 0
  /\ dp.steps[0].status = "failed"
  /\ dp.steps[1].status = "passed"
  /\ dp.steps[5].status = "skipped"
  /\ dp.steps[6].status = "passed"
  /\ dp.steps[11].status = "pending"

\* C34: in a delivered report, every category that has an issue belongs to a
\* step whose final ledger status is warning or failed.
C34_LedgerAgreesWithIssues ==
  ReportOfLiveRun =>
    \A cat \in IssueCategories(Val(report)) :
      finished.ledger[findIndex(finished.ledger, cat)].status \in {"warning", "failed"}

\* C35: in the report the App holds, no interactive category is both tested
\* and skipped.
C35_TestedOrSkipped ==
  (currentPage = "report" /\ ~IsNull(report)) =>
    \A testId \in InteractiveIds :
      ~(Val(report).interactive[testId].tested /\ Val(report).interactive[testId].skipped)

\* SpeakerTest 'has issue' button: onComplete({left: leftTested, right:
\* rightTested}), the channels whose test sound has ended so far.
SpeakerHasIssue(leftTested, rightTested) == [left |-> leftTested, right |-> rightTested]

\* C36: whichever channels were played before, ending the speaker test with
\* 'has issue' leaves the speaker step with status warning and at least one
\* channel recorded as failed.
C36_HasIssueIsWarning ==
  [][\A leftTested, rightTested \in BOOLEAN :
       handleTestComplete("speaker", SpeakerHasIssue(leftTested, rightTested))
         => /\ dp'.steps[findIndex(dp.steps, "speaker")].status = "warning"
            /\ ~(dp'.interactiveResults.speaker.left
                   /\ dp'.interactiveResults.speaker.right)]_vars

\* C37: once the camera test has ended, by 'working', 'not working' or skip,
\* no media stream that getUserMedia returned to it is still live.
C37_NoStreamLeftActive ==
  cameraTest.ended # "no" =>
    \A k \in 1 .. Len(cameraTest.streams) : cameraTest.streams[k] # "live"

\* C38: the result Finish reports is true for every sub-test that had passed
\* at some time before.
C38_SubTestsMonotonic ==
  ~IsNull(trackpadTest.result) =>
    /\ trackpadTest.ever.click => Val(trackpadTest.result).click
    /\ trackpadTest.ever.drag => Val(trackpadTest.result).drag
    /\ trackpadTest.ever.gesture => Val(trackpadTest.result).gesture

====
